---- MODULE Spec2Model ----
(***************************************************************************)
(* Content pipeline of the blog: MarkdownPostRepository over a directory   *)
(* of markdown documents (src/src/content/markdown.repository.ts).         *)
(*                                                                         *)
(* Strings are sequences of one-character strings, so that the date        *)
(* pattern, string comparison and emptiness are computed, not looked up.   *)
(* A document is the sequence of its lines (content split on "\n"): the    *)
(* last line is the only one not terminated by a newline.                  *)
(***************************************************************************)
EXTENDS Integers, Sequences, FiniteSets, TLC

\* ------------------------------------------------------------------ bounds
MaxPage == 3
MaxPerPage == 2
MaxWrites == 1
MaxText == 5      \* longest text enumerated character by character
MaxSlugLen == 5   \* longest raw string given to the slug functions
MaxLines == 5     \* most lines of a document given to parseFrontmatter
MaxSeed == 3      \* most posts an in-memory repository is seeded with
MaxWords == 477   \* most words of a generated text: two full minutes and one

\* --------------------------------------------------------------- constants
AVERAGE_WORDS_PER_MINUTE == 238
DefaultPage == 1
DefaultPerPage == 10

\* ----------------------------------------------------------------- strings
Digits == {"0", "1", "2", "3", "4", "5", "6", "7", "8", "9"}
Letters == {"a", "b", "c", "h", "t", "x"}

\* Code-unit order of the characters that occur in dates.
CharOrd(c) ==
  CASE c = "-" -> 0
    [] c = "0" -> 1 [] c = "1" -> 2 [] c = "2" -> 3 [] c = "3" -> 4
    [] c = "4" -> 5 [] c = "5" -> 6 [] c = "6" -> 7 [] c = "7" -> 8
    [] c = "8" -> 9 [] c = "9" -> 10
    [] OTHER -> 11

Min(a, b) == IF a < b THEN a ELSE b
Max(a, b) == IF a > b THEN a ELSE b

\* a.localeCompare(b): negative, zero or positive; left-to-right comparison.
RECURSIVE localeCompare(_, _)
localeCompare(a, b) ==
  IF a = <<>> /\ b = <<>> THEN 0
  ELSE IF a = <<>> THEN -1
  ELSE IF b = <<>> THEN 1
  ELSE IF CharOrd(Head(a)) < CharOrd(Head(b)) THEN -1
  ELSE IF CharOrd(Head(a)) > CharOrd(Head(b)) THEN 1
  ELSE localeCompare(Tail(a), Tail(b))

\* /^\d{4}-\d{2}-\d{2}$/
ISO_DATE_REGEX(s) ==
  /\ Len(s) = 10
  /\ \A i \in {1, 2, 3, 4, 6, 7, 9, 10} : s[i] \in Digits
  /\ s[5] = "-"
  /\ s[8] = "-"

\* z.string().url(): the text parses as an absolute URL, i.e. it starts
\* with a scheme of letters followed by ":".
IsAbsoluteUrl(s) ==
  \E i \in 2..Len(s) :
    /\ s[i] = ":"
    /\ \A j \in 1..(i - 1) : s[j] \in Letters

\* ------------------------------------------------- values of the YAML tree
\* A tagged value: undefined (key absent), null, string, boolean or array.
Undef == [t |-> "undefined", s |-> <<>>, b |-> FALSE, l |-> <<>>]
Null == [t |-> "null", s |-> <<>>, b |-> FALSE, l |-> <<>>]
Str(s) == [t |-> "string", s |-> s, b |-> FALSE, l |-> <<>>]
Bool(b) == [t |-> "boolean", s |-> <<>>, b |-> b, l |-> <<>>]
Arr(l) == [t |-> "array", s |-> <<>>, b |-> FALSE, l |-> l]

\* Optional strings of a Post (string | null): <<>> is null, <<s>> is s.
None == <<>>
Some(s) == <<s>>

Keys == {"title", "description", "publishedAt", "updatedAt", "tags", "draft",
         "externalUrl", "category"}

\* ------------------------------------------------------------------- lines
Delim == [kind |-> "delim", key |-> "", val |-> Undef, words |-> 1]
Blank == [kind |-> "blank", key |-> "", val |-> Undef, words |-> 0]
Text(n) == [kind |-> "text", key |-> "", val |-> Undef, words |-> n]
KV(k, v) == [kind |-> "kv", key |-> k, val |-> v, words |-> 2]
\* a line that starts with "---" and goes on, such as "---x" or "----"
DelimX == [kind |-> "delimx", key |-> "", val |-> Undef, words |-> 1]

\* Words of a text given as lines: content.trim().split(/\s+/).filter(Boolean)
RECURSIVE WordCount(_)
WordCount(lines) ==
  IF lines = <<>> THEN 0 ELSE Head(lines).words + WordCount(Tail(lines))

\* The empty string "".
EmptyText == <<Blank>>

\* ------------------------------------------------------------ reading time
CeilDiv(a, b) == (a + b - 1) \div b

\* Mutant of ReadingMinutes: the quotient is rounded down.
ReadingMinutes_floor(wordCount) ==
  Max(1, wordCount \div AVERAGE_WORDS_PER_MINUTE)

\* Math.max(1, Math.ceil(wordCount / AVERAGE_WORDS_PER_MINUTE))
ReadingMinutes(wordCount) ==
  LET minutes == CeilDiv(wordCount, AVERAGE_WORDS_PER_MINUTE)
  IN Max(1, minutes)

\* calculateReadingTime on a text given as lines
calculateReadingTime(content) == ReadingMinutes(WordCount(content))

\* The same function on a text given character by character.
Whitespace == {" ", "\n", "\t"}
IsSpace(ch) == ch \in Whitespace

\* String.prototype.trim
Trim(text) ==
  LET solid == {i \in 1..Len(text) : ~IsSpace(text[i])}
  IN IF solid = {} THEN <<>>
     ELSE SubSeq(text, CHOOSE i \in solid : \A j \in solid : i <= j,
                       CHOOSE i \in solid : \A j \in solid : i >= j)

\* text.split(/\s+/).filter(Boolean), each piece given by where it starts: the
\* non-empty pieces are the maximal runs of characters that are not whitespace.
Tokens(text) ==
  {i \in 1..Len(text) : ~IsSpace(text[i]) /\ (i = 1 \/ IsSpace(text[i - 1]))}

calculateReadingTimeOfText(text) ==
  LET wordCount == Cardinality(Tokens(Trim(text)))
  IN ReadingMinutes(wordCount)

\* ---------------------------------------------------------------- markdown
\* unified().use(remarkParse)...process(markdown): one element per non-blank
\* line; a text without any non-blank line renders to the empty string <<>>.
RECURSIVE processMarkdown(_)
processMarkdown(markdown) ==
  IF markdown = <<>> THEN <<>>
  ELSE LET ln == Head(markdown)
           rest == processMarkdown(Tail(markdown))
       IN CASE ln.kind = "blank" -> rest
            [] ln.kind = "delim" -> <<[tag |-> "hr", words |-> 0]>> \o rest
            [] OTHER -> <<[tag |-> "p", words |-> ln.words]>> \o rest

\* ------------------------------------------------------------------- slugs
\* [a-z0-9]
IsLowerAlnum(ch) == ch \in Letters \cup Digits

\* Mutant of isValidSlug: a hyphen may be followed by anything.
isValidSlug_noLookahead(raw) ==
  /\ Len(raw) # 0
  /\ IsLowerAlnum(raw[1])
  /\ \A i \in 2..Len(raw) : IsLowerAlnum(raw[i]) \/ raw[i] = "-"

\* VALID_SLUG_REGEX.test(raw) with /^[a-z0-9](?:[a-z0-9]|-(?=[a-z0-9]))*$/:
\* each character after the first is alphanumeric, or a hyphen that has an
\* alphanumeric character right after it.
isValidSlug(raw) ==
  /\ Len(raw) # 0
  /\ IsLowerAlnum(raw[1])
  /\ \A i \in 2..Len(raw) :
       \/ IsLowerAlnum(raw[i])
       \/ raw[i] = "-" /\ i < Len(raw) /\ IsLowerAlnum(raw[i + 1])

\* String.prototype.toLowerCase
LowerOf(ch) == IF ch = "A" THEN "a" ELSE ch
toLowerCase(s) == [i \in 1..Len(s) |-> LowerOf(s[i])]

\* Mutant of ReplaceUnsafe: digits are replaced as well.
ReplaceUnsafe_digitsToo(s) ==
  [i \in 1..Len(s) |-> IF s[i] \in Letters \cup {"-"} THEN s[i] ELSE "-"]

\* .replace(/[^a-z0-9-]/g, "-")
ReplaceUnsafe(s) ==
  [i \in 1..Len(s) |-> IF IsLowerAlnum(s[i]) \/ s[i] = "-" THEN s[i] ELSE "-"]

\* Mutant of CollapseHyphens: runs of hyphens are kept.
CollapseHyphens_keep(s) == s

\* .replace(/-{2,}/g, "-"): of each run of hyphens the first one stays
RECURSIVE CollapseHyphens(_)
CollapseHyphens(s) ==
  IF Len(s) < 2 THEN s
  ELSE IF s[1] = "-" /\ s[2] = "-" THEN CollapseHyphens(Tail(s))
  ELSE <<Head(s)>> \o CollapseHyphens(Tail(s))

\* .replace(/^-+|-+$/g, "")
StripHyphens(s) ==
  LET solid == {i \in 1..Len(s) : s[i] # "-"}
  IN IF solid = {} THEN <<>>
     ELSE SubSeq(s, CHOOSE i \in solid : \A j \in solid : i <= j,
                    CHOOSE i \in solid : \A j \in solid : i >= j)

\* null is None, a slug s is Some(s)
normaliseSlug(raw) ==
  LET normalised ==
        StripHyphens(CollapseHyphens(ReplaceUnsafe(toLowerCase(raw))))
  IN IF Len(normalised) > 0 THEN Some(normalised) ELSE None

\* ------------------------------------------------------------- front matter
\* yaml.parse(frontmatterText) on the lines of the metadata block.
\*   threw    : the library raised (a key given twice, or text mixed into a map)
\*   isObject : the document is a map (not null and not a scalar)
\*   fields   : the map; a key that is absent holds Undef
AbsentFields == [k \in Keys |-> Undef]

KvLines(lines) == SelectSeq(lines, LAMBDA ln : ln.kind = "kv")
TextLines(lines) == SelectSeq(lines, LAMBDA ln : ln.kind = "text")

parseYaml(lines) ==
  LET kvs == KvLines(lines)
      txt == TextLines(lines)
      dup == \E i, j \in 1..Len(kvs) : i < j /\ kvs[i].key = kvs[j].key
      valueOf(k) ==
        IF \E i \in 1..Len(kvs) : kvs[i].key = k
        THEN kvs[CHOOSE i \in 1..Len(kvs) : kvs[i].key = k].val
        ELSE Undef
  IN IF dup \/ (Len(kvs) > 0 /\ Len(txt) > 0)
     THEN [threw |-> TRUE, isObject |-> FALSE, fields |-> AbsentFields]
     ELSE IF Len(kvs) = 0
     THEN [threw |-> FALSE, isObject |-> FALSE, fields |-> AbsentFields]
     ELSE [threw |-> FALSE, isObject |-> TRUE,
           fields |-> [k \in Keys |-> valueOf(k)]]

\* The object literal {} used when the document has no metadata block.
EmptyObject == [threw |-> FALSE, isObject |-> TRUE, fields |-> AbsentFields]

\* Index of the closing delimiter line: the first "---" line from the third
\* line on that is followed by a newline; 0 when the pattern does not match.
\* /^---\r?\n(.*?)\r?\n---\r?\n(.*)/s
ClosingIndex(content) ==
  IF /\ Len(content) >= 2
     /\ content[1] = Delim
     /\ \E j \in 3..(Len(content) - 1) : content[j] = Delim
  THEN CHOOSE j \in 3..(Len(content) - 1) :
         /\ content[j] = Delim
         /\ \A i \in 3..(j - 1) : content[i] # Delim
  ELSE 0

extractFrontmatter(content) ==
  LET j == ClosingIndex(content)
  IN IF j = 0
     THEN [threw |-> FALSE, frontmatter |-> EmptyObject, body |-> content]
     ELSE LET frontmatterText == SubSeq(content, 2, j - 1)
              body == SubSeq(content, j + 1, Len(content))
              frontmatter == parseYaml(frontmatterText)
          IN [threw |-> frontmatter.threw, frontmatter |-> frontmatter,
              body |-> body]

\* ------------------------------------------ lib/content/frontmatter.ts
\* A line starts with "---".
StartsWithDashes(ln) == ln.kind \in {"delim", "delimx"}

\* What follows the "---" on a line that starts with it.
AfterDashes(ln) == IF ln.kind = "delim" THEN Blank ELSE Text(1)

\* String.prototype.trimStart on lines: leading empty lines go.
RECURSIVE TrimStart(_)
TrimStart(lines) ==
  IF lines = <<>> THEN EmptyText
  ELSE IF Head(lines) = Blank THEN TrimStart(Tail(lines))
  ELSE lines

\* FRONTMATTER_REGEX.exec(raw) with /^---\n([\s\S]*?)\n---/: the first line is
\* "---", and the match ends with the first later "\n---", which is the start
\* of the first line from the third on that begins with "---".  0: no match.
FrontmatterMatch(raw) ==
  IF /\ Len(raw) >= 3
     /\ raw[1] = Delim
     /\ \E j \in 3..Len(raw) : StartsWithDashes(raw[j])
  THEN CHOOSE j \in 3..Len(raw) :
         /\ StartsWithDashes(raw[j])
         /\ \A i \in 3..(j - 1) : ~StartsWithDashes(raw[i])
  ELSE 0

MissingBlock == "Missing or malformed frontmatter block"

\* The head of parseFrontmatter: the match, the guard on it, yamlBlock and
\* body.  closing is the line on which the match ends.
ExtractBlock(raw) ==
  LET j == FrontmatterMatch(raw)
      yamlBlock == SubSeq(raw, 2, j - 1)
  IN IF j = 0 \/ yamlBlock = <<Blank>>
     THEN [ok |-> FALSE, message |-> MissingBlock, yamlBlock |-> <<>>,
           body |-> <<>>, closing |-> 0]
     ELSE [ok |-> TRUE, message |-> "", yamlBlock |-> yamlBlock,
           body |-> TrimStart(<<AfterDashes(raw[j])>>
                              \o SubSeq(raw, j + 1, Len(raw))),
           closing |-> j]

\* ------------------------------------------------------------------ schema
Issue(path, message) == [path |-> path, message |-> message]

\* z.string().min(1)
NonEmptyStringIssues(path, v) ==
  IF v.t # "string" THEN <<Issue(path, "expected string")>>
  ELSE IF Len(v.s) < 1 THEN <<Issue(path, "too small")>>
  ELSE <<>>

\* Mutant of DateIssues: any string passes as a date.
DateIssues_anyString(path, v) ==
  IF v.t # "string" THEN <<Issue(path, "expected string")>> ELSE <<>>

\* z.string().regex(ISO_DATE_REGEX, { message })
DateIssues(path, v) ==
  IF v.t # "string" THEN <<Issue(path, "expected string")>>
  ELSE IF ~ISO_DATE_REGEX(v.s) THEN <<Issue(path, "must be in YYYY-MM-DD format")>>
  ELSE <<>>

\* .nullish(): undefined and null pass
NullishDateIssues(path, v) ==
  IF v.t \in {"undefined", "null"} THEN <<>> ELSE DateIssues(path, v)

\* z.array(z.string()).default([])
TagsIssues(v) ==
  IF v.t \in {"undefined", "array"} THEN <<>>
  ELSE <<Issue("tags", "expected array")>>

\* z.boolean().default(false)
DraftIssues(v) ==
  IF v.t \in {"undefined", "boolean"} THEN <<>>
  ELSE <<Issue("draft", "expected boolean")>>

\* z.string().url().nullish()
UrlIssues(v) ==
  IF v.t \in {"undefined", "null"} THEN <<>>
  ELSE IF v.t # "string" THEN <<Issue("externalUrl", "expected string")>>
  ELSE IF ~IsAbsoluteUrl(v.s) THEN <<Issue("externalUrl", "Invalid URL")>>
  ELSE <<>>

\* PostFrontmatterSchema.safeParse(frontmatter): every issue, in schema order.
\* Unknown keys (category) are stripped by z.object.
SchemaIssues(frontmatter) ==
  IF ~frontmatter.isObject THEN <<Issue("", "expected object")>>
  ELSE LET f == frontmatter.fields
       IN NonEmptyStringIssues("title", f.title)
          \o NonEmptyStringIssues("description", f.description)
          \o DateIssues("publishedAt", f.publishedAt)
          \o NullishDateIssues("updatedAt", f.updatedAt)
          \o TagsIssues(f.tags)
          \o DraftIssues(f.draft)
          \o UrlIssues(f.externalUrl)

\* Mutant of SchemaData: a post without a draft key is a draft and has a tag.
SchemaData_otherDefaults(frontmatter) ==
  LET f == frontmatter.fields
  IN [title |-> f.title.s,
      description |-> f.description.s,
      publishedAt |-> f.publishedAt.s,
      updatedAt |-> f.updatedAt,
      tags |-> IF f.tags.t = "undefined" THEN <<"g">> ELSE f.tags.l,
      draft |-> IF f.draft.t = "undefined" THEN TRUE ELSE f.draft.b,
      externalUrl |-> f.externalUrl]

\* result.data of a successful safeParse, defaults applied.
SchemaData(frontmatter) ==
  LET f == frontmatter.fields
  IN [title |-> f.title.s,
      description |-> f.description.s,
      publishedAt |-> f.publishedAt.s,
      updatedAt |-> f.updatedAt,
      tags |-> IF f.tags.t = "undefined" THEN <<>> ELSE f.tags.l,
      draft |-> IF f.draft.t = "undefined" THEN FALSE ELSE f.draft.b,
      externalUrl |-> f.externalUrl]

PostFrontmatterSchema(frontmatter) ==
  LET issues == SchemaIssues(frontmatter)
  IN [success |-> issues = <<>>,
      issues |-> issues,
      data |-> SchemaData(frontmatter)]

\* x ?? null for a nullish string
OrNull(v) == IF v.t = "string" THEN Some(v.s) ELSE None

\* JavaScript truthiness of an optional string value
Truthy(v) == v.t = "string" /\ Len(v.s) > 0

\* --------------------------------------------------------------- file names
\* A directory entry: stem and extension ("a.md" is stem <<"a">>, ext ".md").
createPostSlug(raw) == raw

NoFile == <<>>

NoPost ==
  [slug |-> <<>>, title |-> <<>>, description |-> <<>>, content |-> <<>>,
   publishedAt |-> <<>>, updatedAt |-> None, tags |-> <<>>, draft |-> FALSE,
   externalUrl |-> None, readingTimeMinutes |-> 0]

\* Mutant of BuildPost: the reading time is always taken from the body.
BuildPost_timeFromBody(file, data, body) ==
  LET slug == createPostSlug(file.stem)
      external == Truthy(data.externalUrl)
      processedContent == IF external THEN <<>> ELSE processMarkdown(body)
      readingTime == calculateReadingTime(body)
  IN [rendered |-> ~external,
      post |-> [slug |-> slug,
                title |-> data.title,
                description |-> data.description,
                content |-> processedContent,
                publishedAt |-> data.publishedAt,
                updatedAt |-> OrNull(data.updatedAt),
                tags |-> data.tags,
                draft |-> data.draft,
                externalUrl |-> OrNull(data.externalUrl),
                readingTimeMinutes |-> readingTime]]

\* Mutant of BuildPost: the body is rendered for external posts too.
BuildPost_alwaysRender(file, data, body) ==
  LET slug == createPostSlug(file.stem)
      external == Truthy(data.externalUrl)
      processedContent == processMarkdown(body)
      readingTime == calculateReadingTime(IF external THEN EmptyText ELSE body)
  IN [rendered |-> TRUE,
      post |-> [slug |-> slug,
                title |-> data.title,
                description |-> data.description,
                content |-> processedContent,
                publishedAt |-> data.publishedAt,
                updatedAt |-> OrNull(data.updatedAt),
                tags |-> data.tags,
                draft |-> data.draft,
                externalUrl |-> OrNull(data.externalUrl),
                readingTimeMinutes |-> readingTime]]

\* The tail of parsePostFile, after validation: slug, content, reading time
\* and the Post.  rendered: processMarkdown was invoked.
BuildPost(file, data, body) ==
  LET slug == createPostSlug(file.stem)
      external == Truthy(data.externalUrl)
      processedContent == IF external THEN <<>> ELSE processMarkdown(body)
      readingTime == calculateReadingTime(IF external THEN EmptyText ELSE body)
  IN [rendered |-> ~external,
      post |-> [slug |-> slug,
                title |-> data.title,
                description |-> data.description,
                content |-> processedContent,
                publishedAt |-> data.publishedAt,
                updatedAt |-> OrNull(data.updatedAt),
                tags |-> data.tags,
                draft |-> data.draft,
                externalUrl |-> OrNull(data.externalUrl),
                readingTimeMinutes |-> readingTime]]

\* ------------------------------------------------------------------ errors
\* The value a failing parsePostFile throws.  filePath is <<>> when the error
\* has no such property, field is None when it is left undefined, and lines
\* holds one [path, message] pair per "  - path: message" line of the message.
PlainError ==
  [name |-> "Error", filePath |-> <<>>, field |-> None, lines |-> <<>>]

\* issue.path.length > 0 ? issue.path.join('.') : 'root'
IssueLine(issue) ==
  [path |-> IF issue.path = "" THEN "root" ELSE issue.path,
   message |-> issue.message]

RECURSIVE IssueLines(_)
IssueLines(issues) ==
  IF issues = <<>> THEN <<>>
  ELSE <<IssueLine(Head(issues))>> \o IssueLines(Tail(issues))

\* Mutant of FrontmatterError: the message reports the first issue only.
FrontmatterError_firstOnly(filePath, issues) ==
  LET firstField == IF issues = <<>> THEN "" ELSE issues[1].path
  IN [name |-> "FrontmatterError",
      filePath |-> <<filePath>>,
      field |-> IF firstField # "" THEN Some(firstField) ELSE None,
      lines |-> IssueLines(SubSeq(issues, 1, 1))]

\* new FrontmatterError(filePath, zodError)
FrontmatterError(filePath, issues) ==
  LET firstField == IF issues = <<>> THEN "" ELSE issues[1].path
  IN [name |-> "FrontmatterError",
      filePath |-> <<filePath>>,
      field |-> IF firstField # "" THEN Some(firstField) ELSE None,
      lines |-> IssueLines(issues)]

\* parsePostFile(filePath) when the file holds `content` (NoFile: the read
\* fails).  error: "" (a Post is returned), "ENOENT", "yaml" (Failed to parse
\* frontmatter) or "FrontmatterError"; thrown: the value thrown.
parsePostFile(file, content) ==
  IF content = NoFile
  THEN [error |-> "ENOENT", issues |-> <<>>, rendered |-> FALSE,
        post |-> NoPost, thrown |-> PlainError]
  ELSE LET ex == extractFrontmatter(content)
           result == PostFrontmatterSchema(ex.frontmatter)
       IN IF ex.threw
          THEN [error |-> "yaml", issues |-> <<>>, rendered |-> FALSE,
                post |-> NoPost, thrown |-> PlainError]
          ELSE IF ~result.success
          THEN [error |-> "FrontmatterError", issues |-> result.issues,
                rendered |-> FALSE, post |-> NoPost,
                thrown |-> FrontmatterError(file, result.issues)]
          ELSE LET built == BuildPost(file, result.data, ex.body)
               IN [error |-> "", issues |-> <<>>, rendered |-> built.rendered,
                   post |-> built.post, thrown |-> PlainError]

\* ------------------------------------------------------------------ queries
\* Array.prototype.sort with (a, b) => b.publishedAt.localeCompare(a.publishedAt):
\* a stable sort; an element moves in front of those that compare after it.
\* Mutant of InsertByDate: a post also moves in front of posts of its own date.
RECURSIVE InsertByDate_unstable(_, _)
InsertByDate_unstable(sorted, p) ==
  IF sorted = <<>> THEN <<p>>
  ELSE IF localeCompare(p.publishedAt, Head(sorted).publishedAt) >= 0
       THEN <<p>> \o sorted
       ELSE <<Head(sorted)>> \o InsertByDate_unstable(Tail(sorted), p)

RECURSIVE InsertByDate(_, _)
InsertByDate(sorted, p) ==
  IF sorted = <<>> THEN <<p>>
  ELSE IF localeCompare(p.publishedAt, Head(sorted).publishedAt) > 0
       THEN <<p>> \o sorted
       ELSE <<Head(sorted)>> \o InsertByDate(Tail(sorted), p)

RECURSIVE SortFrom(_, _)
SortFrom(sorted, rest) ==
  IF rest = <<>> THEN sorted
  ELSE SortFrom(InsertByDate(sorted, Head(rest)), Tail(rest))

SortByDateDesc(posts) == SortFrom(<<>>, posts)

\* Mutant of FilterPublished: the draft filter is dropped.
FilterPublished_keepDrafts(posts) == posts

\* posts.filter(post => !post.draft)
FilterPublished(posts) == SelectSeq(posts, LAMBDA p : ~p.draft)

\* Mutant of toPostSummary: the post is returned whole.
toPostSummary_whole(post) == post

\* const { content, ...summary } = post
toPostSummary(post) ==
  [slug |-> post.slug, title |-> post.title, description |-> post.description,
   publishedAt |-> post.publishedAt, updatedAt |-> post.updatedAt,
   tags |-> post.tags, draft |-> post.draft, externalUrl |-> post.externalUrl,
   readingTimeMinutes |-> post.readingTimeMinutes]

MapSummary(posts) == [i \in 1..Len(posts) |-> toPostSummary(posts[i])]

\* Mutant of Slice: the element at index end is included.
Slice_inclusive(items, start, end) ==
  LET len == Len(items)
      k == IF start < 0 THEN Max(len + start, 0) ELSE Min(start, len)
      final == IF end < 0 THEN Max(len + end + 1, 0) ELSE Min(end + 1, len)
  IN SubSeq(items, k + 1, final)

\* Array.prototype.slice(start, end): negative indices count from the end.
Slice(items, start, end) ==
  LET len == Len(items)
      k == IF start < 0 THEN Max(len + start, 0) ELSE Min(start, len)
      final == IF end < 0 THEN Max(len + end, 0) ELSE Min(end, len)
  IN SubSeq(items, k + 1, final)

\* A JavaScript number that is an integer, NaN or Infinity.
Int_(v) == [kind |-> "int", v |-> v]
NaN == [kind |-> "NaN", v |-> 0]
Infinity == [kind |-> "Infinity", v |-> 0]

\* Mutant of TotalPages: the quotient is rounded down.
TotalPages_floor(total, perPage) ==
  IF perPage = 0
  THEN IF total = 0 THEN NaN ELSE Infinity
  ELSE IF perPage > 0
  THEN Int_(Max(1, total \div perPage))
  ELSE Int_(1)

\* Math.max(1, Math.ceil(total / perPage)), total >= 0
TotalPages(total, perPage) ==
  IF perPage = 0
  THEN IF total = 0 THEN NaN ELSE Infinity
  ELSE IF perPage > 0
  THEN Int_(Max(1, CeilDiv(total, perPage)))
  ELSE Int_(1)

NoParams == [given |-> FALSE, page |-> 0, perPage |-> 0]
Params(page, perPage) == [given |-> TRUE, page |-> page, perPage |-> perPage]

\* Mutant of paginate: the offset treats page as 0-based.
paginate_zeroBased(items, params) ==
  LET page == IF params.given THEN params.page ELSE DefaultPage
      perPage == IF params.given THEN params.perPage ELSE DefaultPerPage
      offset == page * perPage
      paginatedItems == Slice(items, offset, offset + perPage)
      total == Len(items)
      totalPages == TotalPages(total, perPage)
  IN [items |-> paginatedItems, total |-> total, page |-> page,
      perPage |-> perPage, totalPages |-> totalPages]

paginate(items, params) ==
  LET page == IF params.given THEN params.page ELSE DefaultPage
      perPage == IF params.given THEN params.perPage ELSE DefaultPerPage
      offset == (page - 1) * perPage
      paginatedItems == Slice(items, offset, offset + perPage)
      total == Len(items)
      totalPages == TotalPages(total, perPage)
  IN [items |-> paginatedItems, total |-> total, page |-> page,
      perPage |-> perPage, totalPages |-> totalPages]

\* Mutant of FindSlug: the lookup runs over the published posts only.
FindSlug_publishedOnly(posts, slug) ==
  LET hits == SelectSeq(posts, LAMBDA p : p.slug = slug /\ ~p.draft)
  IN IF hits = <<>> THEN <<>> ELSE <<Head(hits)>>

\* posts.find(post => post.slug === slug) || null, as a list of 0 or 1 post
FindSlug(posts, slug) ==
  LET hits == SelectSeq(posts, LAMBDA p : p.slug = slug)
  IN IF hits = <<>> THEN <<>> ELSE <<Head(hits)>>

\* ------------------------------------------------------- document universe
TitleT == <<"t">>
DescX == <<"x">>
Date1 == <<"2", "0", "2", "4", "-", "0", "1", "-", "1", "5">>
Date2 == <<"2", "0", "2", "4", "-", "0", "2", "-", "0", "1">>
Date3 == <<"2", "0", "2", "3", "-", "1", "2", "-", "3", "1">>
UrlH == <<"h", ":", "x">>

Meta(date) ==
  <<KV("title", Str(TitleT)), KV("description", Str(DescX)),
    KV("publishedAt", Str(date))>>

\* a published post whose body has 239 words
DocPublished == <<Delim>> \o Meta(Date1) \o <<Delim, Text(239)>>
\* a draft of the same date
DocDraft ==
  <<Delim>> \o Meta(Date1) \o <<KV("draft", Bool(TRUE)), Delim, Blank, Text(3)>>
\* an external post that nevertheless has a body of 300 words
DocExternal ==
  <<Delim>> \o Meta(Date2) \o <<KV("externalUrl", Str(UrlH)), Delim, Text(300)>>
\* a published post with a category and an empty body
DocEmptyBody ==
  <<Delim>> \o Meta(Date3) \o <<KV("category", Str(<<"c">>)), Delim, Blank>>
\* the title is missing
DocMissingTitle ==
  <<Delim, KV("description", Str(DescX)), KV("publishedAt", Str(Date1)),
    Delim, Text(1)>>
\* no metadata block at all
DocNoFrontmatter == <<Text(5), Blank, Text(7)>>
\* a metadata block that is not well-formed YAML
DocMalformedYaml ==
  <<Delim, KV("title", Str(TitleT)), Text(1), KV("description", Str(DescX)),
    KV("publishedAt", Str(Date1)), Delim, Text(1)>>

Documents ==
  {DocPublished, DocDraft, DocExternal, DocEmptyBody, DocMissingTitle,
   DocNoFrontmatter, DocMalformedYaml}

FileA == [stem |-> <<"a">>, ext |-> ".md"]
FileB == [stem |-> <<"b">>, ext |-> ".md"]
FileC == [stem |-> <<"c">>, ext |-> ".md"]
FileT == [stem |-> <<"a">>, ext |-> ".txt"]
\* a file whose name is not in slug form
FileU == [stem |-> <<"A", " ", "b">>, ext |-> ".md"]
Names == {FileA, FileB, FileC, FileT, FileU}

\* Documents a directory entry holds when the repository is constructed.
InitialDocs(n) ==
  IF n \in {FileA, FileB} THEN Documents \cup {NoFile}
  ELSE IF n = FileC THEN {DocPublished, NoFile}
  ELSE IF n = FileT THEN {DocPublished}
  ELSE {NoFile}

\* Documents the environment writes while the repository is in use.
Edits == {DocPublished, DocMissingTitle}

\* slugs a caller asks for: the three file stems and one that names no file
Slugs == {<<"a">>, <<"b">>, <<"c">>, <<"x">>}

Pages == (-1)..MaxPage
PerPages == 0..MaxPerPage
ParamValues == {NoParams} \cup {Params(pg, pp) : pg \in Pages, pp \in PerPages}

\* ------------------------------------------------------------------- state
VARIABLES
  dirExists,  \* fs.existsSync(postsDir)
  files,      \* directory entry -> lines of the file, or NoFile
  calls,      \* query call -> its progress (pc: idle, loop, done, threw)
  writes,     \* number of changes made to the directory so far
  input,      \* argument of the pure function under study, <<>> when none
  output      \* <<>> before the function is applied, <<its result>> after

vars == <<dirExists, files, calls, writes, input, output>>

NoResult ==
  [posts |-> <<>>,
   page |-> [items |-> <<>>, total |-> 0, page |-> 0, perPage |-> 0,
             totalPages |-> Int_(0)]]

IdleCall ==
  [pc |-> "idle", op |-> "", slug |-> <<>>, params |-> NoParams,
   listing |-> <<>>, idx |-> 0, posts |-> <<>>, skipped |-> <<>>,
   renders |-> <<>>, startedAt |-> 0, overlapped |-> FALSE,
   result |-> NoResult]

Init ==
  /\ dirExists \in BOOLEAN
  /\ files \in [Names -> Documents \cup {NoFile}]
  /\ IF dirExists THEN \A n \in Names : files[n] \in InitialDocs(n)
                  ELSE \A n \in Names : files[n] = NoFile
  /\ calls = [c \in {1} |-> IdleCall]
  /\ writes = 0
  /\ input = <<>>
  /\ output = <<>>

\* All orders in which readdirSync may return the set S of entries.
Orders(S) ==
  {q \in [1..Cardinality(S) -> S] : \A i, j \in 1..Cardinality(S) :
     i # j => q[i] # q[j]}

\* fs.readdirSync(postsDir).filter(file => file.endsWith('.md'))
MdFiles == {n \in Names : files[n] # NoFile /\ n.ext = ".md"}

\* Mutant of Start: the directory was listed once, before any document was
\* added or removed, and that listing is used by every call.
Start_listedOnce(c, op, slug, params) ==
  /\ calls[c].pc = "idle"
  /\ \E listing \in Orders({n \in Names : n.ext = ".md" /\ n.stem = <<"a">>}) :
       calls' = [calls EXCEPT ![c] =
                   [IdleCall EXCEPT !.pc = "loop", !.op = op, !.slug = slug,
                                    !.params = params, !.listing = listing,
                                    !.idx = 1, !.startedAt = writes]]
  /\ UNCHANGED <<dirExists, files, writes, input, output>>

\* The synchronous head of getAllPosts: existence check and directory listing.
Start(c, op, slug, params) ==
  /\ calls[c].pc = "idle"
  /\ \E listing \in IF dirExists THEN Orders(MdFiles) ELSE {<<>>} :
       calls' = [calls EXCEPT ![c] =
                   [IdleCall EXCEPT !.pc = "loop", !.op = op, !.slug = slug,
                                    !.params = params, !.listing = listing,
                                    !.idx = 1, !.startedAt = writes]]
  /\ UNCHANGED <<dirExists, files, writes, input, output>>

findAll(c) == Start(c, "findAll", <<>>, NoParams)

findBySlug(c) == \E slug \in Slugs : Start(c, "findBySlug", slug, NoParams)

findPublished(c) ==
  \E params \in ParamValues : Start(c, "findPublished", <<>>, params)

\* Mutant of LoopBody: a failing file ends the loop (break for continue).
LoopBody_break(call, file, r) ==
  [call EXCEPT
     !.idx = IF r.error = "" THEN call.idx + 1 ELSE Len(call.listing) + 1,
     !.posts = IF r.error = "" THEN Append(call.posts, r.post) ELSE call.posts,
     !.skipped = IF r.error = "" THEN call.skipped
                 ELSE Append(call.skipped, [file |-> file, error |-> r.error,
                                          thrown |-> r.thrown]),
     !.renders = IF r.rendered THEN Append(call.renders, file)
                 ELSE call.renders]

\* Mutant of LoopBody: the error of a failing file is not caught.
LoopBody_rethrow(call, file, r) ==
  [call EXCEPT
     !.pc = IF r.error = "" THEN "loop" ELSE "threw",
     !.idx = call.idx + 1,
     !.posts = IF r.error = "" THEN Append(call.posts, r.post) ELSE call.posts,
     !.renders = IF r.rendered THEN Append(call.renders, file)
                 ELSE call.renders]

\* Mutant of LoopBody: the posts array is one array of the repository, which
\* the calls inside the loop all push to.
LoopBody_sharedPosts(call, file, r) ==
  LET shared ==
        LET inLoop == {d \in DOMAIN calls : calls[d].pc = "loop"}
            most == CHOOSE d \in inLoop :
                      \A e \in inLoop : Len(calls[d].posts) >= Len(calls[e].posts)
        IN calls[most].posts
  IN [call EXCEPT
        !.idx = call.idx + 1,
        !.posts = IF r.error = "" THEN Append(shared, r.post) ELSE shared,
        !.skipped = IF r.error = "" THEN call.skipped
                    ELSE Append(call.skipped, [file |-> file, error |-> r.error,
                                               thrown |-> r.thrown]),
        !.renders = IF r.rendered THEN Append(call.renders, file)
                    ELSE call.renders]

\* Mutant of LoopBody: a post that a finished call holds for the file is
\* used again instead of the outcome of reading the file now.
LoopBody_cached(call, file, r) ==
  LET holders == {d \in DOMAIN calls :
                    /\ calls[d].pc = "done"
                    /\ \E i \in 1..Len(calls[d].posts) :
                         calls[d].posts[i].slug = file.stem}
      hit == holders # {}
      held == LET d == CHOOSE d \in holders : TRUE
                  i == CHOOSE i \in 1..Len(calls[d].posts) :
                         calls[d].posts[i].slug = file.stem
              IN calls[d].posts[i]
  IN [call EXCEPT
        !.idx = call.idx + 1,
        !.posts = IF hit THEN Append(call.posts, held)
                  ELSE IF r.error = "" THEN Append(call.posts, r.post)
                  ELSE call.posts,
        !.skipped = IF hit \/ r.error = "" THEN call.skipped
                    ELSE Append(call.skipped, [file |-> file, error |-> r.error,
                                               thrown |-> r.thrown]),
        !.renders = IF r.rendered THEN Append(call.renders, file)
                    ELSE call.renders]

\* Mutant of LoopBody: a failed read discards the posts collected so far.
LoopBody_readErrorResets(call, file, r) ==
  [call EXCEPT
     !.idx = call.idx + 1,
     !.posts = IF r.error = "" THEN Append(call.posts, r.post)
               ELSE IF r.error = "ENOENT" THEN <<>> ELSE call.posts,
     !.skipped = IF r.error = "" THEN call.skipped
                 ELSE Append(call.skipped, [file |-> file, error |-> r.error,
                                          thrown |-> r.thrown]),
     !.renders = IF r.rendered THEN Append(call.renders, file)
                 ELSE call.renders]

\* The body of the for loop of getAllPosts, given the outcome r of
\* parsePostFile: push the post, or catch the error, log it and continue.
LoopBody(call, file, r) ==
  [call EXCEPT
     !.idx = call.idx + 1,
     !.posts = IF r.error = "" THEN Append(call.posts, r.post) ELSE call.posts,
     !.skipped = IF r.error = "" THEN call.skipped
                 ELSE Append(call.skipped, [file |-> file, error |-> r.error,
                                          thrown |-> r.thrown]),
     !.renders = IF r.rendered THEN Append(call.renders, file)
                 ELSE call.renders]

\* Another call is inside its loop (history, for the claims on concurrency).
OthersInLoop(c) == \E d \in DOMAIN calls \ {c} : calls[d].pc = "loop"

\* One iteration of the for loop of getAllPosts on the next file of the
\* listing, read from the directory as it is now.
getAllPostsStep(c) ==
  LET call == calls[c] IN
  /\ call.pc = "loop"
  /\ call.idx <= Len(call.listing)
  /\ LET file == call.listing[call.idx]
         next == LoopBody(call, file, parsePostFile(file, files[file]))
     IN calls' = [calls EXCEPT ![c] =
                    [next EXCEPT !.overlapped = @ \/ OthersInLoop(c)]]
  /\ UNCHANGED <<dirExists, files, writes, input, output>>

\* getAllPosts as a function of the directory: the posts of the files of a
\* listing, all read from the directory as it is now.
RECURSIVE DiscoverPosts(_)
DiscoverPosts(listing) ==
  IF listing = <<>> THEN <<>>
  ELSE LET r == parsePostFile(Head(listing), files[Head(listing)])
       IN (IF r.error = "" THEN <<r.post>> ELSE <<>>)
          \o DiscoverPosts(Tail(listing))

\* What each query does with the posts of getAllPosts.
QueryResult(op, slug, params, posts) ==
  CASE op = "findAll" ->
         [NoResult EXCEPT !.posts = SortByDateDesc(posts)]
    [] op = "findBySlug" ->
         [NoResult EXCEPT !.posts = FindSlug(posts, slug)]
    [] OTHER ->
         [NoResult EXCEPT !.page =
            paginate(MapSummary(SortByDateDesc(FilterPublished(posts))), params)]

\* getAllPosts returns and the query computes its result.
Complete(c) ==
  LET call == calls[c] IN
  /\ call.pc = "loop"
  /\ call.idx > Len(call.listing)
  /\ calls' = [calls EXCEPT ![c] =
       [call EXCEPT !.pc = "done",
                    !.result = QueryResult(call.op, call.slug, call.params,
                                           call.posts)]]
  /\ UNCHANGED <<dirExists, files, writes, input, output>>

\* The caller takes the result; the call object is gone.
Return(c) ==
  /\ calls[c].pc = "done"
  /\ calls' = [calls EXCEPT ![c] = IdleCall]
  /\ UNCHANGED <<dirExists, files, writes, input, output>>

\* The environment adds or replaces a document.
WriteFile(n, d) ==
  /\ dirExists
  /\ writes < MaxWrites
  /\ files[n] # d
  /\ files' = [files EXCEPT ![n] = d]
  /\ writes' = writes + 1
  /\ UNCHANGED <<dirExists, calls, input, output>>

\* The environment removes a document.
DeleteFile(n) ==
  /\ dirExists
  /\ writes < MaxWrites
  /\ files[n] # NoFile
  /\ files' = [files EXCEPT ![n] = NoFile]
  /\ writes' = writes + 1
  /\ UNCHANGED <<dirExists, calls, input, output>>

Next ==
  \/ \E c \in DOMAIN calls : findAll(c)
  \/ \E c \in DOMAIN calls : findBySlug(c)
  \/ \E c \in DOMAIN calls : findPublished(c)
  \/ \E c \in DOMAIN calls : getAllPostsStep(c)
  \/ \E c \in DOMAIN calls : Complete(c)
  \/ \E c \in DOMAIN calls : Return(c)
  \/ \E n \in {FileA, FileB, FileC}, d \in Edits : WriteFile(n, d)
  \/ \E n \in {FileA, FileB, FileC} : DeleteFile(n)

Spec == Init /\ [][Next]_vars

\* ------------------------------------------- one document of any metadata
\* A directory holding one document whose metadata block is any combination
\* of present, absent, well-formed and ill-formed fields.
BadDate == <<"1", "5", "-", "0", "1", "-", "2", "0", "2", "4">>
UrlBad == <<"n", "o">>

TitleValues == {Undef, Str(<<>>), Str(TitleT)}
DescriptionValues == {Str(<<>>), Str(DescX)}
PublishedAtValues == {Undef, Str(Date1), Str(BadDate)}
UpdatedAtValues == {Undef, Null, Str(Date2), Str(BadDate)}
TagsValues == {Undef, Arr(<<"g">>)}
DraftValues == {Undef, Bool(TRUE), Str(<<"y">>)}
ExternalUrlValues == {Undef, Str(UrlH), Str(UrlBad)}

\* An absent key has no line in the metadata block.
FieldLine(k, v) == IF v = Undef THEN <<>> ELSE <<KV(k, v)>>

DocOf(title, description, publishedAt, updatedAt, tags, draft, externalUrl) ==
  <<Delim>> \o FieldLine("title", title)
  \o FieldLine("description", description)
  \o FieldLine("publishedAt", publishedAt)
  \o FieldLine("updatedAt", updatedAt)
  \o FieldLine("tags", tags)
  \o FieldLine("draft", draft)
  \o FieldLine("externalUrl", externalUrl)
  \o <<Delim, Text(1)>>

\* An external post of metadata only: the file ends with the closing "---",
\* and the same file with a newline after it.
DocBare == <<Delim>> \o Meta(Date2) \o <<KV("externalUrl", Str(UrlH)), Delim>>
DocBareNewline == DocBare \o <<Blank>>

DocUniverse ==
  {DocOf(t, d, p, u, g, r, e) :
     t \in TitleValues, d \in DescriptionValues, p \in PublishedAtValues,
     u \in UpdatedAtValues, g \in TagsValues, r \in DraftValues,
     e \in ExternalUrlValues}
  \cup {DocNoFrontmatter, DocMalformedYaml, DocBare, DocBareNewline}

InitDocs ==
  /\ dirExists = TRUE
  /\ \E n \in {FileA, FileU}, d \in DocUniverse :
       files = [m \in Names |-> IF m = n THEN d ELSE NoFile]
  /\ calls = [c \in {1} |-> IdleCall]
  /\ writes = 0
  /\ input = <<>>
  /\ output = <<>>

\* The queries alone: the directory does not change.
NextDocs ==
  \/ \E c \in DOMAIN calls : findAll(c)
  \/ \E c \in DOMAIN calls : findBySlug(c)
  \/ \E c \in DOMAIN calls : findPublished(c)
  \/ \E c \in DOMAIN calls : getAllPostsStep(c)
  \/ \E c \in DOMAIN calls : Complete(c)
  \/ \E c \in DOMAIN calls : Return(c)

SpecDocs == InitDocs /\ [][NextDocs]_vars

\* ------------------------------------------------------ concurrent calls
\* Two calls on one repository over a directory that does not change.
InitConc ==
  /\ dirExists \in BOOLEAN
  /\ \E a \in {DocPublished, DocMissingTitle}, b \in {DocDraft, DocExternal, NoFile} :
       files = [m \in Names |->
                  IF ~dirExists THEN NoFile
                  ELSE IF m = FileA THEN a ELSE IF m = FileB THEN b ELSE NoFile]
  /\ calls = [c \in {1, 2} |-> IdleCall]
  /\ writes = 0
  /\ input = <<>>
  /\ output = <<>>

NextConc ==
  \/ \E c \in DOMAIN calls : findAll(c)
  \/ \E c \in DOMAIN calls : findBySlug(c)
  \/ \E c \in DOMAIN calls : findPublished(c)
  \/ \E c \in DOMAIN calls : getAllPostsStep(c)
  \/ \E c \in DOMAIN calls : Complete(c)
  \/ \E c \in DOMAIN calls : Return(c)

SpecConc == InitConc /\ [][NextConc]_vars

\* ------------------------------------------- calls over a changing source
\* Two calls on one repository whose directory holds one published post at
\* construction; while the repository is in use that document is changed or
\* removed and a second document is added.
Dir0 == [m \in Names |-> IF m = FileA THEN DocPublished ELSE NoFile]

InitLive ==
  /\ dirExists = TRUE
  /\ files = Dir0
  /\ calls = [c \in {1, 2} |-> IdleCall]
  /\ writes = 0
  /\ input = <<>>
  /\ output = <<>>

NextLive ==
  \/ \E c \in DOMAIN calls : findAll(c)
  \/ \E c \in DOMAIN calls : findBySlug(c)
  \/ \E c \in DOMAIN calls : getAllPostsStep(c)
  \/ \E c \in DOMAIN calls : Complete(c)
  \/ \E c \in DOMAIN calls : Return(c)
  \/ \E d \in Edits : WriteFile(FileA, d)
  \/ WriteFile(FileB, DocPublished)
  \/ DeleteFile(FileA)

SpecLive == InitLive /\ [][NextLive]_vars

\* ------------------------------------------------------ findByCategory
\* A post of a repository whose posts carry a category (None: no category).
CategoryPost(slug, date, draft, category) ==
  [slug |-> slug, title |-> TitleT, description |-> DescX, content |-> <<>>,
   publishedAt |-> date, updatedAt |-> None, tags |-> <<>>, draft |-> draft,
   externalUrl |-> None, readingTimeMinutes |-> 1, category |-> category]

\* const { content, ...summary } = post, for a post with a category
toCategorySummary(post) ==
  [slug |-> post.slug, title |-> post.title, description |-> post.description,
   publishedAt |-> post.publishedAt, updatedAt |-> post.updatedAt,
   tags |-> post.tags, draft |-> post.draft, externalUrl |-> post.externalUrl,
   readingTimeMinutes |-> post.readingTimeMinutes, category |-> post.category]

\* Mutant of findByCategory: drafts of the category are returned too.
findByCategory_withDrafts(posts, category, params) ==
  LET matching == SelectSeq(posts, LAMBDA p : p.category = Some(category))
      sorted == SortByDateDesc(matching)
  IN paginate([i \in 1..Len(sorted) |-> toCategorySummary(sorted[i])], params)

\* findByCategory(category, pagination): findPublished with the additional
\* filter category === requested.
findByCategory(posts, category, params) ==
  LET matching == SelectSeq(posts, LAMBDA p :
                              ~p.draft /\ p.category = Some(category))
      sorted == SortByDateDesc(matching)
  IN paginate([i \in 1..Len(sorted) |-> toCategorySummary(sorted[i])], params)

\* Seeds: up to MaxSeed posts named a, b, c, d in turn, each published or a
\* draft, of one of two dates, in category e, in category c or in none.
SeedSlugs == <<<<"a">>, <<"b">>, <<"c">>, <<"d">>>>
SeedKinds ==
  [date : {Date1, Date2}, draft : BOOLEAN,
   category : {None, Some(<<"e">>), Some(<<"c">>)}]
Seeds ==
  {[i \in 1..Len(q) |->
      CategoryPost(SeedSlugs[i], q[i].date, q[i].draft, q[i].category)] :
     q \in UNION {[1..k -> SeedKinds] : k \in 0..MaxSeed}}

InitCategory ==
  /\ dirExists = FALSE
  /\ files = [m \in Names |-> NoFile]
  /\ calls = [c \in {1} |-> IdleCall]
  /\ writes = 0
  /\ input \in {<<[posts |-> seed, category |-> category, params |-> params]>> :
                  seed \in Seeds, category \in {<<"e">>, <<"p">>},
                  params \in {NoParams} \cup
                             {Params(pg, pp) : pg \in {1, 2}, pp \in {1, 2}}}
  /\ output = <<>>

\* repo.findByCategory(category, pagination) on the seeded repository
FindByCategory ==
  /\ output = <<>>
  /\ output' = <<findByCategory(input[1].posts, input[1].category,
                                input[1].params)>>
  /\ UNCHANGED <<dirExists, files, calls, writes, input>>

SpecCategory == InitCategory /\ [][FindByCategory]_vars

\* ------------------------------------------------- reading time of a text
\* All strings over an alphabet up to a length.
Strings(alphabet, n) == UNION {[1..k -> alphabet] : k \in 0..n}

\* n one-letter words, each followed by a blank.
WordsText(n) == [i \in 1..(2 * n) |-> IF i % 2 = 1 THEN "w" ELSE " "]

ReadingTexts ==
  Strings({"w", " ", "\n"}, MaxText) \cup {WordsText(n) : n \in 0..MaxWords}

\* A text to estimate, next to a directory of one post that findAll reads.
InitReading ==
  /\ dirExists = TRUE
  /\ \E d \in {DocPublished, DocExternal, DocEmptyBody} :
       files = [m \in Names |-> IF m = FileA THEN d ELSE NoFile]
  /\ calls = [c \in {1} |-> IdleCall]
  /\ writes = 0
  /\ input \in {<<text>> : text \in ReadingTexts}
  /\ output = <<>>

\* calculateReadingTime(input)
Estimate ==
  /\ input # <<>>
  /\ output = <<>>
  /\ output' = <<calculateReadingTimeOfText(input[1])>>
  /\ UNCHANGED <<dirExists, files, calls, writes, input>>

NextReading ==
  \/ Estimate
  \/ \E c \in DOMAIN calls : findAll(c)
  \/ \E c \in DOMAIN calls : getAllPostsStep(c)
  \/ \E c \in DOMAIN calls : Complete(c)
  \/ \E c \in DOMAIN calls : Return(c)

SpecReading == InitReading /\ [][NextReading]_vars

\* ------------------------------------------- extraction of the block
\* Documents of one to MaxLines lines.
LineKinds == {Delim, DelimX, Blank, Text(1), KV("title", Str(TitleT))}
RawDocuments == Strings(LineKinds, MaxLines) \ {<<>>}

InitExtract ==
  /\ dirExists = FALSE
  /\ files = [m \in Names |-> NoFile]
  /\ calls = [c \in {1} |-> IdleCall]
  /\ writes = 0
  /\ input \in {<<raw>> : raw \in RawDocuments}
  /\ output = <<>>

\* parseFrontmatter(input) up to the extraction of block and body
ExtractFrontmatter ==
  /\ output = <<>>
  /\ output' = <<ExtractBlock(input[1])>>
  /\ UNCHANGED <<dirExists, files, calls, writes, input>>

NextExtract == ExtractFrontmatter

SpecExtract == InitExtract /\ [][NextExtract]_vars

\* ---------------------------------------------------- the slug functions
\* Raw strings of lowercase letters, digits, hyphens, uppercase letters and
\* blanks.
SlugAlphabet == {"a", "0", "-", "A", " "}

\* What one application of a slug function returned.
Validated(raw) ==
  [op |-> "isValidSlug", arg |-> raw, valid |-> isValidSlug(raw),
   slug |-> None]
Normalised(raw) ==
  [op |-> "normaliseSlug", arg |-> raw, valid |-> FALSE,
   slug |-> normaliseSlug(raw)]

InitSlug ==
  /\ dirExists = FALSE
  /\ files = [m \in Names |-> NoFile]
  /\ calls = [c \in {1} |-> IdleCall]
  /\ writes = 0
  /\ input \in {<<raw>> : raw \in Strings(SlugAlphabet, MaxSlugLen)}
  /\ output = <<>>

\* isValidSlug(input)
ValidateSlug ==
  /\ output = <<>>
  /\ output' = <<Validated(input[1])>>
  /\ UNCHANGED <<dirExists, files, calls, writes, input>>

\* normaliseSlug(input), on a fresh input or after it was validated
NormaliseSlug ==
  /\ output = <<>> \/ (Len(output) = 1 /\ output[1].op = "isValidSlug")
  /\ output' = Append(output, Normalised(input[1]))
  /\ UNCHANGED <<dirExists, files, calls, writes, input>>

\* isValidSlug(normaliseSlug(input)) when the slug is not null
ValidateOutput ==
  /\ Len(output) = 1
  /\ output[1].op = "normaliseSlug"
  /\ output[1].slug # None
  /\ output' = Append(output, Validated(output[1].slug[1]))
  /\ UNCHANGED <<dirExists, files, calls, writes, input>>

\* normaliseSlug(normaliseSlug(input)) when the slug is not null
NormaliseOutput ==
  /\ Len(output) = 1
  /\ output[1].op = "normaliseSlug"
  /\ output[1].slug # None
  /\ output' = Append(output, Normalised(output[1].slug[1]))
  /\ UNCHANGED <<dirExists, files, calls, writes, input>>

NextSlug ==
  \/ ValidateSlug
  \/ NormaliseSlug
  \/ ValidateOutput
  \/ NormaliseOutput

SpecSlug == InitSlug /\ [][NextSlug]_vars

\* ------------------------------- parseYaml of lib/content/frontmatter.ts
\* A line of a metadata block as the two patterns of the parser see it:
\* "key: text" (keyValue matches), "  - text" (arrayItem matches), the empty
\* line, and a line that neither pattern matches.  text is a string given in
\* pieces: a piece is one character, or one of the words true, false, True.
MaxYamlLines == 4
MaxScalar == 3

YKey(k, text) == [kind |-> "key", key |-> k, text |-> text]
YItem(text) == [kind |-> "item", key |-> "", text |-> text]
YBlank == [kind |-> "blank", key |-> "", text |-> <<>>]
YOther == [kind |-> "other", key |-> "", text |-> <<"a">>]

YamlKeys == {"title", "tags", "draft"}
Quotes == {"'", "\""}

\* value.replace(/^['"]|['"]$/g, ""): a quote at the start is removed, and a
\* quote at the end is removed.
Unquote(value) ==
  LET rest == IF value # <<>> /\ value[1] \in Quotes THEN Tail(value) ELSE value
  IN IF rest # <<>> /\ rest[Len(rest)] \in Quotes
     THEN SubSeq(rest, 1, Len(rest) - 1)
     ELSE rest

\* The variables of the loop before the first line; currentKey "" is null.
YamlStart ==
  [result |-> [k \in YamlKeys |-> Undef], currentKey |-> "", inArray |-> FALSE,
   arrayValues |-> <<>>]

\* if (inArray && currentKey) { result[currentKey] = arrayValues; ... }
CloseArray(st) ==
  IF st.inArray /\ st.currentKey # ""
  THEN [result |-> [st.result EXCEPT ![st.currentKey] = Arr(st.arrayValues)],
        currentKey |-> "", inArray |-> FALSE, arrayValues |-> <<>>]
  ELSE st

\* The body of the for loop of parseYaml on one line.
ParseYamlLine(st, line) ==
  IF line.kind = "item" /\ st.inArray /\ st.currentKey # ""
  THEN [st EXCEPT !.arrayValues = Append(@, Trim(line.text))]
  ELSE LET closed == CloseArray(st)
           value == Trim(line.text)
       IN IF line.kind # "key" THEN closed
          ELSE IF value = <<>>
          THEN [closed EXCEPT !.currentKey = line.key, !.inArray = TRUE,
                              !.arrayValues = <<>>]
          ELSE IF value = <<"true">>
          THEN [closed EXCEPT !.result[line.key] = Bool(TRUE)]
          ELSE IF value = <<"false">>
          THEN [closed EXCEPT !.result[line.key] = Bool(FALSE)]
          ELSE [closed EXCEPT !.result[line.key] = Str(Unquote(value))]

RECURSIVE ParseYamlLines(_, _)
ParseYamlLines(st, lines) ==
  IF lines = <<>> THEN st
  ELSE ParseYamlLines(ParseYamlLine(st, Head(lines)), Tail(lines))

\* parseYaml(yaml) of the lib: the loop, then the list still open is stored.
libParseYaml(lines) == CloseArray(ParseYamlLines(YamlStart, lines)).result

\* Blocks of up to MaxYamlLines lines, and blocks of one scalar of up to
\* MaxScalar pieces.
YamlLines ==
  {YKey("tags", <<>>), YKey("title", <<"a">>), YKey("draft", <<"true">>),
   YItem(<<"a">>), YItem(<<"b">>), YBlank, YOther}
ScalarTexts ==
  Strings({"true", "false", "True", "a", "'", "\"", " "}, MaxScalar)
YamlBlocks ==
  Strings(YamlLines, MaxYamlLines)
  \cup {<<YKey("title", text)>> : text \in ScalarTexts}

InitYaml ==
  /\ dirExists = FALSE
  /\ files = [m \in Names |-> NoFile]
  /\ calls = [c \in {1} |-> IdleCall]
  /\ writes = 0
  /\ input \in {<<yaml>> : yaml \in YamlBlocks}
  /\ output = <<>>

\* const parsed = parseYaml(yamlBlock)
ParseYaml ==
  /\ output = <<>>
  /\ output' = <<libParseYaml(input[1])>>
  /\ UNCHANGED <<dirExists, files, calls, writes, input>>

NextYaml == ParseYaml

SpecYaml == InitYaml /\ [][NextYaml]_vars

\* ================================================================== claims
Done(c, op) == calls[c].pc = "done" /\ calls[c].op = op

\* The directory has not changed since call c listed it.
Undisturbed(c) == calls[c].startedAt = writes

Range(q) == {q[i] : i \in 1..Len(q)}

DigitVal(ch) == CharOrd(ch) - 1

\* A valid YYYY-MM-DD date as the number YYYYMMDD.
DateNumber(s) ==
  DigitVal(s[1]) * 10000000 + DigitVal(s[2]) * 1000000
  + DigitVal(s[3]) * 100000 + DigitVal(s[4]) * 10000
  + DigitVal(s[6]) * 1000 + DigitVal(s[7]) * 100
  + DigitVal(s[9]) * 10 + DigitVal(s[10])

Pos(q, x) == CHOOSE i \in 1..Len(q) : q[i] = x

\* The published summaries a call has discovered, in date order.
PublishedList(c) == MapSummary(SortByDateDesc(FilterPublished(calls[c].posts)))

\* C1: no item returned by findPublished is a draft, whatever the documents
\* and the pagination.
C1_NoDraftPublished ==
  \A c \in DOMAIN calls :
    Done(c, "findPublished") =>
      \A i \in 1..Len(calls[c].result.page.items) :
        calls[c].result.page.items[i].draft = FALSE

\* C1 witness: a findPublished that discovered a draft and returned items.
C1_Witness ==
  \E c \in DOMAIN calls :
    /\ Done(c, "findPublished")
    /\ \E p \in Range(calls[c].posts) : p.draft
    /\ calls[c].result.page.items # <<>>

\* C2: findAll returns every discovered post (drafts included), newest first,
\* and posts of the same date keep their discovery order.
C2_FindAllStableDesc ==
  \A c \in DOMAIN calls :
    Done(c, "findAll") =>
      LET r == calls[c].result.posts
          d == calls[c].posts
      IN /\ Len(r) = Len(d)
         /\ Range(r) = Range(d)
         /\ \A i, j \in 1..Len(r) :
              i < j =>
                /\ DateNumber(r[i].publishedAt) >= DateNumber(r[j].publishedAt)
                /\ DateNumber(r[i].publishedAt) = DateNumber(r[j].publishedAt)
                     => Pos(d, r[i]) < Pos(d, r[j])

\* C2 witness: a findAll over three posts, two of one date and one a draft,
\* whose result is not in discovery order.
C2_Witness ==
  \E c \in DOMAIN calls :
    /\ Done(c, "findAll")
    /\ Len(calls[c].posts) = 3
    /\ calls[c].result.posts # calls[c].posts
    /\ \E p \in Range(calls[c].posts) : p.draft
    /\ \E i, j \in 1..3 :
         i # j /\ calls[c].posts[i].publishedAt = calls[c].posts[j].publishedAt

\* C3: for page >= 1 and perPage >= 1 the items are the elements at indices
\* [(page-1)*perPage, (page-1)*perPage + perPage) of the filtered sorted list;
\* beyond the last page they are empty, nothing is thrown, and page, perPage
\* and total are still reported.
C3_PageWindow ==
  \A c \in DOMAIN calls :
    /\ calls[c].pc # "threw"
    /\ (Done(c, "findPublished") /\ calls[c].params.given
          /\ calls[c].params.page >= 1 /\ calls[c].params.perPage >= 1) =>
         LET res == calls[c].result.page
             full == PublishedList(c)
             page == calls[c].params.page
             perPage == calls[c].params.perPage
             offset == (page - 1) * perPage
             count == Max(0, Min(perPage, Len(full) - offset))
         IN /\ Len(res.items) = count
            /\ \A i \in 1..count : res.items[i] = full[offset + i]
            /\ res.page = page
            /\ res.perPage = perPage
            /\ res.total = Len(full)
            /\ (res.totalPages.kind = "int" /\ page > res.totalPages.v)
                 => res.items = <<>>

\* C3 witness: a second or later page that holds items.
C3_Witness ==
  \E c \in DOMAIN calls :
    /\ Done(c, "findPublished")
    /\ calls[c].params.given
    /\ calls[c].params.page >= 2
    /\ calls[c].params.perPage >= 1
    /\ calls[c].result.page.items # <<>>

\* C4: for perPage >= 1, total is the number of discovered non-draft posts
\* whatever page and perPage are, and totalPages is the least n >= 1 with
\* n * perPage >= total.
C4_TotalAndTotalPages ==
  \A c \in DOMAIN calls :
    (Done(c, "findPublished") /\ calls[c].params.given
       /\ calls[c].params.perPage >= 1) =>
      LET res == calls[c].result.page
          perPage == calls[c].params.perPage
          d == calls[c].posts
          matching == {i \in 1..Len(d) : ~d[i].draft}
      IN /\ res.total = Cardinality(matching)
         /\ res.totalPages.kind = "int"
         /\ res.totalPages.v >= 1
         /\ res.totalPages.v * perPage >= res.total
         /\ res.totalPages.v > 1 => (res.totalPages.v - 1) * perPage < res.total

\* C4 witness: three published posts at two per page make two pages.
C4_Witness ==
  \E c \in DOMAIN calls :
    /\ Done(c, "findPublished")
    /\ calls[c].params.given
    /\ calls[c].params.perPage = 2
    /\ calls[c].result.page.total = 3
    /\ calls[c].result.page.totalPages = Int_(2)

\* C5: over an empty document set (empty or missing directory) findPublished
\* returns totalPages 1, total 0 and no items for any page and perPage.
C5_EmptySetFloor ==
  \A c \in DOMAIN calls :
    (Done(c, "findPublished") /\ calls[c].listing = <<>>) =>
      /\ calls[c].result.page.totalPages = Int_(1)
      /\ calls[c].result.page.total = 0
      /\ calls[c].result.page.items = <<>>

\* A document that parsePostFile accepts: its metadata block parses and
\* passes the schema.
ValidDocument(content) ==
  /\ content # NoFile
  /\ ~extractFrontmatter(content).threw
  /\ SchemaIssues(extractFrontmatter(content).frontmatter) = <<>>

BodyOf(content) == extractFrontmatter(content).body

MdFile(slug) == [stem |-> slug, ext |-> ".md"]

Slugs_(q) == {q[i].slug : i \in 1..Len(q)}

\* C6: a document that fails validation or has no well-formed metadata block
\* is left out of findAll and findPublished, every valid document of the
\* listing is still returned, and the query does not throw.
C6_FailureIsolation ==
  \A c \in DOMAIN calls :
    LET call == calls[c]
        valid == {n \in Range(call.listing) : ValidDocument(files[n])}
        published ==
          {n \in valid : ~parsePostFile(n, files[n]).post.draft}
    IN /\ call.pc # "threw"
       /\ (Done(c, "findAll") /\ Undisturbed(c)) =>
            Slugs_(call.result.posts) = {n.stem : n \in valid}
       /\ (Done(c, "findPublished") /\ Undisturbed(c) /\ ~call.params.given) =>
            /\ Slugs_(call.result.page.items) = {n.stem : n \in published}
            /\ call.result.page.total = Cardinality(published)

\* C6 witness: a findAll whose listing has an invalid document in front of a
\* valid one, and which returned the valid one.
C6_Witness ==
  \E c \in DOMAIN calls :
    /\ Done(c, "findAll")
    /\ Undisturbed(c)
    /\ \E i, j \in 1..Len(calls[c].listing) :
         /\ i < j
         /\ ~ValidDocument(files[calls[c].listing[i]])
         /\ ValidDocument(files[calls[c].listing[j]])
         /\ calls[c].listing[j].stem \in Slugs_(calls[c].result.posts)

C8_FindBySlugMatchesFindAll ==
  \A c \in DOMAIN calls :
    (Done(c, "findBySlug") /\ Undisturbed(c)) =>
      \A order \in Orders(MdFiles) :
        \A p \in Range(SortByDateDesc(DiscoverPosts(order))) :
          p.slug = calls[c].slug => calls[c].result.posts = <<p>>

\* C8 witness: a lookup that returned a draft.
C8_Witness ==
  \E c \in DOMAIN calls :
    /\ Done(c, "findBySlug")
    /\ Undisturbed(c)
    /\ Len(calls[c].result.posts) = 1
    /\ calls[c].result.posts[1].draft

\* C9: a post whose front matter sets externalUrl has empty content and a
\* reading time of 1, and processMarkdown was not invoked for its document,
\* whatever its body holds.
C9_ExternalNotRendered ==
  \A c \in DOMAIN calls :
    \A p \in Range(calls[c].posts) \cup Range(calls[c].result.posts) :
      p.externalUrl # None =>
        /\ p.content = <<>>
        /\ p.readingTimeMinutes = 1
        /\ MdFile(p.slug) \notin Range(calls[c].renders)

\* C9 witness: an external post was built from a document whose body has
\* more than 238 words.
C9_Witness ==
  \E c \in DOMAIN calls :
    /\ Undisturbed(c)
    /\ \E p \in Range(calls[c].posts) :
         /\ p.externalUrl # None
         /\ WordCount(BodyOf(files[MdFile(p.slug)])) > AVERAGE_WORDS_PER_MINUTE

\* C10 as stated: a returned Post has empty content if and only if
\* externalUrl is set.
C10_ContentEmptyIffExternal ==
  \A c \in DOMAIN calls :
    \A p \in Range(calls[c].result.posts) :
      (p.content = <<>>) <=> (p.externalUrl # None)

\* C10 amended: a returned Post has empty content if and only if externalUrl
\* is set or the body of its document has no non-blank line.
C10_ContentEmptyIffExternalOrBlank ==
  \A c \in DOMAIN calls :
    Undisturbed(c) =>
      \A p \in Range(calls[c].result.posts) :
        (p.content = <<>>) <=>
          \/ p.externalUrl # None
          \/ \A ln \in Range(BodyOf(files[MdFile(p.slug)])) : ln.kind = "blank"

\* C10 witness: findAll returned an external post, a post with a body and a
\* post with an empty body.
C10_Witness ==
  \E c \in DOMAIN calls :
    /\ Done(c, "findAll")
    /\ Undisturbed(c)
    /\ \E p \in Range(calls[c].result.posts) :
         p.externalUrl # None /\ p.content = <<>>
    /\ \E p \in Range(calls[c].result.posts) :
         p.externalUrl = None /\ p.content = <<>>
    /\ \E p \in Range(calls[c].result.posts) : p.content # <<>>

\* The value written for key k in the metadata block of a document, Undef
\* when the block has no such line.
RawField(content, k) ==
  IF content # NoFile /\ \E i \in 1..Len(content) :
                           content[i].kind = "kv" /\ content[i].key = k
  THEN content[CHOOSE i \in 1..Len(content) :
                 content[i].kind = "kv" /\ content[i].key = k].val
  ELSE Undef

IsDateText(s) ==
  /\ Len(s) = 10
  /\ \A i \in {1, 2, 3, 4, 6, 7, 9, 10} : s[i] \in Digits
  /\ s[5] = "-" /\ s[8] = "-"

\* The document breaks one of the four field rules of the claim.
BreaksFieldRule(content) ==
  LET title == RawField(content, "title")
      description == RawField(content, "description")
      publishedAt == RawField(content, "publishedAt")
      updatedAt == RawField(content, "updatedAt")
  IN \/ title.t # "string" \/ title.s = <<>>
     \/ description.t # "string" \/ description.s = <<>>
     \/ publishedAt.t # "string" \/ ~IsDateText(publishedAt.s)
     \/ updatedAt.t = "string" /\ ~IsDateText(updatedAt.s)

\* A returned post or summary keeps the four field rules.
KeepsFieldRules(p) ==
  /\ p.title # <<>>
  /\ p.description # <<>>
  /\ IsDateText(p.publishedAt)
  /\ p.updatedAt # None => IsDateText(p.updatedAt[1])

\* C11: no query returns a post with an empty title, an empty description, a
\* publishedAt that is not YYYY-MM-DD or a present updatedAt that is not; a
\* document that breaks one of these rules is rejected as a whole.
C11_FailClosed ==
  \A c \in DOMAIN calls :
    calls[c].pc = "done" =>
      LET r == calls[c].result
      IN /\ \A i \in 1..Len(r.posts) : KeepsFieldRules(r.posts[i])
         /\ \A i \in 1..Len(r.page.items) : KeepsFieldRules(r.page.items[i])
         /\ \A n \in Range(calls[c].listing) :
              Undisturbed(c) /\ BreaksFieldRule(files[n]) =>
                /\ \E i \in 1..Len(calls[c].skipped) :
                     calls[c].skipped[i].file = n
                /\ \A i \in 1..Len(r.posts) : r.posts[i].slug # n.stem
                /\ \A i \in 1..Len(r.page.items) :
                     r.page.items[i].slug # n.stem

\* A findAll is done over a document whose only fault is its publishedAt.
C11_Witness ==
  \E c \in DOMAIN calls :
    /\ Done(c, "findAll")
    /\ calls[c].listing = <<FileA>>
    /\ files[FileA] = DocOf(Str(TitleT), Str(DescX), Str(BadDate), Undef, Undef,
                            Undef, Undef)
    /\ calls[c].result.posts = <<>>
    /\ Len(calls[c].skipped) = 1

\* The fields of the schema in the order it declares them.
FieldOrder ==
  <<"title", "description", "publishedAt", "updatedAt", "tags", "draft",
    "externalUrl">>

\* The value written for field k does not meet the rule the schema has for k.
Offends(content, k) ==
  LET v == RawField(content, k)
  IN CASE k \in {"title", "description"} -> v.t # "string" \/ v.s = <<>>
       [] k = "publishedAt" -> v.t # "string" \/ ~IsDateText(v.s)
       [] k = "updatedAt" ->
            v.t \notin {"undefined", "null"}
            /\ (v.t # "string" \/ ~IsDateText(v.s))
       [] k = "tags" -> v.t \notin {"undefined", "array"}
       [] k = "draft" -> v.t \notin {"undefined", "boolean"}
       [] OTHER ->
            v.t \notin {"undefined", "null"}
            /\ (v.t # "string" \/ v.s \notin {UrlH})

OffendingFields(content) == {k \in Range(FieldOrder) : Offends(content, k)}

FirstOffending(content) ==
  FieldOrder[CHOOSE i \in 1..Len(FieldOrder) :
               /\ Offends(content, FieldOrder[i])
               /\ \A j \in 1..(i - 1) : ~Offends(content, FieldOrder[j])]

\* C12: when the metadata of a document breaks the schema in several fields,
\* the FrontmatterError names every offending field with a reason, not only
\* the first, carries the path of the file, and its field property is the
\* first offending field.
C12_AllFieldErrors ==
  \A c \in DOMAIN calls :
    \A i \in 1..Len(calls[c].skipped) :
      LET e == calls[c].skipped[i]
          content == files[e.file]
      IN /\ Undisturbed(c)
         /\ e.error = "FrontmatterError"
         /\ Cardinality(OffendingFields(content)) >= 2
         => /\ e.thrown.name = "FrontmatterError"
            /\ {e.thrown.lines[j].path : j \in 1..Len(e.thrown.lines)}
                 = OffendingFields(content)
            /\ \A j \in 1..Len(e.thrown.lines) : e.thrown.lines[j].message # ""
            /\ e.thrown.filePath = <<e.file>>
            /\ e.thrown.field = Some(FirstOffending(content))

\* A document without title whose publishedAt and externalUrl are ill-formed
\* was skipped with an error of three lines.
C12_Witness ==
  \E c \in DOMAIN calls :
    /\ calls[c].pc = "done"
    /\ files[FileA] = DocOf(Undef, Str(DescX), Str(BadDate), Undef, Undef,
                            Undef, Str(UrlBad))
    /\ Len(calls[c].skipped) = 1
    /\ calls[c].skipped[1].error = "FrontmatterError"
    /\ Len(calls[c].skipped[1].thrown.lines) = 3

\* The metadata block holds a non-empty title, a non-empty description and a
\* publishedAt in YYYY-MM-DD form, and nothing else.
OnlyRequiredFields(content) ==
  /\ content # NoFile
  /\ Len(content) >= 5
  /\ content[1] = Delim /\ content[5] = Delim
  /\ {content[i].kind : i \in 2..4} = {"kv"}
  /\ {content[i].key : i \in 2..4} = {"title", "description", "publishedAt"}
  /\ ~BreaksFieldRule(content)

\* C13: a document whose metadata holds only a non-empty title, a non-empty
\* description and a publishedAt in YYYY-MM-DD form is accepted, with draft
\* false and tags the empty list.
C13_Defaults ==
  \A c \in DOMAIN calls :
    Done(c, "findAll") /\ Undisturbed(c) =>
      \A n \in Range(calls[c].listing) :
        OnlyRequiredFields(files[n]) =>
          /\ \A i \in 1..Len(calls[c].skipped) : calls[c].skipped[i].file # n
          /\ \E i \in 1..Len(calls[c].result.posts) :
               LET p == calls[c].result.posts[i]
               IN /\ p.slug = n.stem
                  /\ p.draft = FALSE
                  /\ p.tags = <<>>

\* findAll is done over such a document and has returned its post.
C13_Witness ==
  \E c \in DOMAIN calls :
    /\ Done(c, "findAll")
    /\ calls[c].listing = <<FileA>>
    /\ OnlyRequiredFields(files[FileA])
    /\ Len(calls[c].result.posts) = 1

\* max(1, ceil(w / 238)) as the least number of whole minutes that cover w
\* words, and at least one.
MinutesFor(w) ==
  IF w = 0 THEN 1
  ELSE CHOOSE m \in 1..w : m * 238 >= w /\ (m - 1) * 238 < w

\* The number of non-empty whitespace-separated tokens of a text: the places
\* where a token ends.
TokenEnds(text) ==
  {i \in 1..Len(text) :
     /\ text[i] \notin {" ", "\n", "\t"}
     /\ (i = Len(text) \/ text[i + 1] \in {" ", "\n", "\t"})}

\* The estimate of a text equals max(1, ceil(w / 238)).
EstimateIsCeiling ==
  output # <<>> => output[1] = MinutesFor(Cardinality(TokenEnds(input[1])))

\* C14 as stated: the estimate is max(1, ceil(w / 238)), and the reading time
\* of every post is at least 1 and is the estimate of its document's body.
C14_ReadingTimeFromBody ==
  /\ EstimateIsCeiling
  /\ \A c \in DOMAIN calls :
       Done(c, "findAll") =>
         \A i \in 1..Len(calls[c].result.posts) :
           LET p == calls[c].result.posts[i]
               body == BodyOf(files[MdFile(p.slug)])
           IN /\ p.readingTimeMinutes >= 1
              /\ p.readingTimeMinutes = MinutesFor(WordCount(body))

\* C14: the estimate is max(1, ceil(w / 238)), and the reading time of every
\* post is at least 1 and is the estimate of its document's body, or of the
\* empty text when the post has an externalUrl.
C14_ReadingTime ==
  /\ EstimateIsCeiling
  /\ \A c \in DOMAIN calls :
       Done(c, "findAll") =>
         \A i \in 1..Len(calls[c].result.posts) :
           LET p == calls[c].result.posts[i]
               body == BodyOf(files[MdFile(p.slug)])
           IN /\ p.readingTimeMinutes >= 1
              /\ p.readingTimeMinutes =
                   IF p.externalUrl # None THEN 1
                   ELSE MinutesFor(WordCount(body))

\* A text of 239 words was estimated at 2 minutes and findAll returned a post
\* whose body of 239 words reads in 2 minutes.
C14_Witness ==
  /\ input = <<WordsText(239)>>
  /\ output = <<2>>
  /\ \E c \in DOMAIN calls :
       /\ Done(c, "findAll")
       /\ files[FileA] = DocPublished
       /\ Len(calls[c].result.posts) = 1
       /\ calls[c].result.posts[1].readingTimeMinutes = 2

\* The four rules of a valid slug, stated on the string.
SlugRules(raw) ==
  /\ raw # <<>>
  /\ \A i \in 1..Len(raw) :
       raw[i] \in {"a", "b", "c", "h", "t", "x"} \cup Digits \cup {"-"}
  /\ raw[1] # "-" /\ raw[Len(raw)] # "-"
  /\ \A i \in 1..(Len(raw) - 1) : ~(raw[i] = "-" /\ raw[i + 1] = "-")

\* C15: isValidSlug(raw) is true exactly when raw is non-empty, holds only
\* lowercase letters, digits and hyphens, neither starts nor ends with a
\* hyphen and has no two hyphens in a row.
C15_ValidSlugRules ==
  \A i \in 1..Len(output) :
    output[i].op = "isValidSlug" => (output[i].valid <=> SlugRules(output[i].arg))

\* Both answers occur: a string with an inner hyphen was found valid.
C15_Witness ==
  /\ input = <<<<"a", "-", "0", "-", "a">>>>
  /\ Len(output) = 1
  /\ output[1].op = "isValidSlug"
  /\ output[1].valid

\* The string holds an ASCII letter or digit once it is lowercased.
HasAlnum(raw) ==
  \E i \in 1..Len(raw) :
    raw[i] \in {"a", "b", "c", "h", "t", "x", "A"} \cup Digits

\* C16: a non-null normaliseSlug(s) is a valid slug, and normaliseSlug(s) is
\* null exactly when s holds no ASCII letter or digit after lowercasing.
C16_NormaliseGivesValid ==
  /\ Len(output) = 2 /\ output[1].op = "normaliseSlug"
       /\ output[2].op = "isValidSlug"
     => output[2].arg = output[1].slug[1] /\ output[2].valid
  /\ \A i \in 1..Len(output) :
       output[i].op = "normaliseSlug" =>
         (output[i].slug = None <=> ~HasAlnum(output[i].arg))

\* A string with an uppercase letter, a blank and a hyphen in a row was
\* normalised and the result was found valid.
C16_Witness ==
  /\ input = <<<<"A", " ", "-", "0", " ">>>>
  /\ Len(output) = 2
  /\ output[1].slug = Some(<<"a", "-", "0">>)
  /\ output[2].op = "isValidSlug"
  /\ output[2].valid

\* C17: normaliseSlug returns a valid slug unchanged, and normalising its own
\* non-null result returns that result again.
C17_IdentityAndIdempotence ==
  /\ Len(output) = 2 /\ output[1].op = "isValidSlug" /\ output[1].valid
       /\ output[2].op = "normaliseSlug"
     => output[2].arg = input[1] /\ output[2].slug = Some(input[1])
  /\ Len(output) = 2 /\ output[1].op = "normaliseSlug"
       /\ output[2].op = "normaliseSlug"
     => output[2].arg = output[1].slug[1] /\ output[2].slug = output[1].slug

\* A valid slug was normalised to itself.
C17_Witness ==
  /\ input = <<<<"a", "-", "0">>>>
  /\ Len(output) = 2
  /\ output[1].op = "isValidSlug" /\ output[1].valid
  /\ output[2].slug = Some(<<"a", "-", "0">>)

\* A raw string that is not a slug was normalised twice, to the same slug.
C17_WitnessTwice ==
  /\ input = <<<<" ", "A", " ", "0">>>>
  /\ Len(output) = 2
  /\ output[1].op = "normaliseSlug"
  /\ output[2].op = "normaliseSlug"
  /\ output[2].slug = Some(<<"a", "-", "0">>)

\* C18: the slug of every returned post is the normalised name of its file,
\* extension removed, and so keeps the rules of a valid slug, whatever the
\* file is called.
C18_SlugIsNormalisedFilename ==
  \A c \in DOMAIN calls :
    Done(c, "findAll") =>
      \A i \in 1..Len(calls[c].result.posts) :
        LET p == calls[c].result.posts[i]
        IN /\ SlugRules(p.slug)
           /\ \E n \in Range(calls[c].listing) :
                Some(p.slug) = normaliseSlug(n.stem)

\* The closing line of a document that begins with a "---" line: the first
\* later line that holds "---" and nothing else; 0 when there is none.
ClosingLine(raw) ==
  IF Len(raw) >= 2 /\ raw[1] = Delim /\ \E j \in 2..Len(raw) : raw[j] = Delim
  THEN CHOOSE j \in 2..Len(raw) :
         raw[j] = Delim /\ \A i \in 2..(j - 1) : raw[i] # Delim
  ELSE 0

\* C19: extraction succeeds exactly for documents made of a "---" line, the
\* metadata block, a closing "---" line and the body; every other document
\* fails with "Missing or malformed frontmatter block"; on success the body
\* starts after the closing line and so holds nothing of the block.
C19_ExtractionExactlyDelimited ==
  output # <<>> =>
    LET raw == input[1]
        r == output[1]
        j == ClosingLine(raw)
        block == SubSeq(raw, 2, j - 1)
    IN /\ r.ok => j # 0
       /\ (j # 0 /\ \E i \in 1..Len(block) : block[i] # Blank) => r.ok
       /\ ~r.ok => r.message = "Missing or malformed frontmatter block"
       /\ r.ok => r.closing >= j

\* C20: over a directory that does not change, each of several calls in
\* flight at once returns what it returns when run alone: the query applied
\* to the posts of its listing, whatever the interleaving of the steps.
C20_ConcurrentAsSequential ==
  \A c \in DOMAIN calls :
    calls[c].pc = "done" =>
      calls[c].result = QueryResult(calls[c].op, calls[c].slug, calls[c].params,
                                    DiscoverPosts(calls[c].listing))

\* Two findBySlug calls for the same slug ran their loops interleaved and
\* both are done with the post.
C20_Witness ==
  /\ Done(1, "findBySlug") /\ Done(2, "findBySlug")
  /\ calls[1].slug = <<"a">> /\ calls[2].slug = <<"a">>
  /\ calls[1].overlapped /\ calls[2].overlapped
  /\ Len(calls[1].listing) = 2
  /\ Len(calls[1].result.posts) = 1
  /\ calls[1].result = calls[2].result

\* C21: nothing is kept between calls: a query started after a document was
\* added, removed or changed lists the directory as it is now and returns the
\* query applied to the posts of the documents as they are now.
C21_NoCacheBetweenCalls ==
  \A c \in DOMAIN calls :
    calls[c].pc = "done" /\ Undisturbed(c) =>
      /\ Range(calls[c].listing) = MdFiles
      /\ calls[c].result =
           QueryResult(calls[c].op, calls[c].slug, calls[c].params,
                       DiscoverPosts(calls[c].listing))

\* A findAll returned the post of a.md; then a.md lost its title, and a
\* findAll started after that returned no post of a.md.
C21_Witness ==
  /\ Done(1, "findAll") /\ calls[1].startedAt = 0
  /\ <<"a">> \in Slugs_(calls[1].result.posts)
  /\ writes = 1
  /\ files[FileA] = DocMissingTitle
  /\ Done(2, "findAll") /\ calls[2].startedAt = 1
  /\ <<"a">> \notin Slugs_(calls[2].result.posts)

\* The posts of the valid documents of a listing in a given directory state.
RECURSIVE PostsIn(_, _)
PostsIn(dir, listing) ==
  IF listing = <<>> THEN <<>>
  ELSE LET r == parsePostFile(Head(listing), dir[Head(listing)])
       IN (IF r.error = "" THEN <<r.post>> ELSE <<>>)
          \o PostsIn(dir, Tail(listing))

MdFilesIn(dir) == {n \in Names : dir[n] # NoFile /\ n.ext = ".md"}

C23_CategoryIsolation ==
  output # <<>> =>
    LET in == input[1]
        r == output[1]
        ofCategory == SelectSeq(in.posts, LAMBDA p :
                                  p.category # None /\ p.category[1] = in.category)
        likePublished ==
          paginate(MapSummary(SortByDateDesc(FilterPublished(ofCategory))),
                   in.params)
    IN /\ \A i \in 1..Len(r.items) :
            /\ r.items[i].draft = FALSE
            /\ r.items[i].category = <<in.category>>
       /\ r.total = Cardinality({i \in 1..Len(in.posts) :
                                   /\ ~in.posts[i].draft
                                   /\ in.posts[i].category = <<in.category>>})
       /\ [i \in 1..Len(r.items) |-> r.items[i].slug]
            = [i \in 1..Len(likePublished.items) |-> likePublished.items[i].slug]
       /\ r.page = likePublished.page /\ r.perPage = likePublished.perPage
       /\ r.totalPages = likePublished.totalPages
       /\ \A i \in 1..Len(in.posts) :
            in.posts[i].category = None \/ in.posts[i].draft =>
              \A j \in 1..Len(r.items) : r.items[j].slug # in.posts[i].slug

\* A seed with a draft of category e, a post without category and a
\* published post of category e gave exactly the last one.
C23_Witness ==
  /\ output # <<>>
  /\ input[1].category = <<"e">>
  /\ input[1].params = NoParams
  /\ Len(input[1].posts) = 3
  /\ input[1].posts[1].draft /\ input[1].posts[1].category = Some(<<"e">>)
  /\ input[1].posts[2].category = None /\ ~input[1].posts[2].draft
  /\ ~input[1].posts[3].draft /\ input[1].posts[3].category = Some(<<"e">>)
  /\ Len(output[1].items) = 1
  /\ output[1].items[1].slug = <<"c">>

\* C24: every item of findPublished has no content field, and each of its
\* fields equals that field of the post findAll returns for the same slug.
C24_SummaryProjection ==
  \A c \in DOMAIN calls :
    Done(c, "findPublished") /\ Undisturbed(c) =>
      \A i \in 1..Len(calls[c].result.page.items) :
        LET item == calls[c].result.page.items[i]
            all == SortByDateDesc(DiscoverPosts(calls[c].listing))
        IN /\ "content" \notin DOMAIN item
           /\ \E j \in 1..Len(all) :
                /\ all[j].slug = item.slug
                /\ DOMAIN item = DOMAIN all[j] \ {"content"}
                /\ \A f \in DOMAIN item : item[f] = all[j][f]

\* findPublished returned the summary of a post whose content is not empty.
C24_Witness ==
  \E c \in DOMAIN calls :
    /\ Done(c, "findPublished") /\ Undisturbed(c)
    /\ Len(calls[c].result.page.items) >= 1
    /\ \E p \in Range(DiscoverPosts(calls[c].listing)) :
         p.slug = calls[c].result.page.items[1].slug /\ p.content # <<>>

\* The files of the listing of call c whose read failed.
ReadFailures(c) ==
  {calls[c].skipped[i].file :
     i \in {j \in 1..Len(calls[c].skipped) : calls[c].skipped[j].error = "ENOENT"}}

\* C25: a document whose read fails during discovery (it was removed after
\* the listing) is skipped, once, and nothing else changes: no call throws,
\* every file of the listing is visited once, and every other document that
\* is readable and valid has its post in the result of findAll.
C25_ReadFailureSkipsOne ==
  \A c \in DOMAIN calls :
    /\ calls[c].pc # "threw"
    /\ (/\ Done(c, "findAll")
        /\ ReadFailures(c) # {}
        /\ writes <= calls[c].startedAt + 1) =>
         /\ Len(calls[c].posts) + Len(calls[c].skipped) = Len(calls[c].listing)
         /\ \A k \in 1..Len(calls[c].listing) :
              LET f == calls[c].listing[k]
                  r == parsePostFile(f, files[f])
              IN IF f \in ReadFailures(c)
                 THEN /\ Cardinality({i \in 1..Len(calls[c].skipped) :
                                        calls[c].skipped[i].file = f}) = 1
                      /\ \A p \in Range(calls[c].result.posts) : p.slug # f.stem
                 ELSE r.error = "" => r.post \in Range(calls[c].result.posts)

\* A findAll lost one document to a failed read after it had already
\* collected a post, and returned a post.
C25_Witness ==
  \E c \in DOMAIN calls :
    /\ Done(c, "findAll")
    /\ writes <= calls[c].startedAt + 1
    /\ \E k \in 2..Len(calls[c].listing) :
         /\ calls[c].listing[k] \in ReadFailures(c)
         /\ parsePostFile(calls[c].listing[1], files[calls[c].listing[1]]).error = ""
    /\ calls[c].result.posts # <<>>

\* The items of page number pg of a list under a page size.
PageItems(full, pg, perPage) == paginate(full, Params(pg, perPage)).items

\* Pages 1..n of a list, one after the other.
RECURSIVE PagesUpTo(_, _, _)
PagesUpTo(full, n, perPage) ==
  IF n = 0 THEN <<>>
  ELSE PagesUpTo(full, n - 1, perPage) \o PageItems(full, n, perPage)

\* C28: for perPage >= 1 the pages 1..totalPages of findPublished partition
\* the filtered, date-sorted list: they are pairwise disjoint, and one after
\* the other in page order they are exactly that list.  The page a call
\* returns is the page of that number.
C28_PagesPartition ==
  \A c \in DOMAIN calls :
    (Done(c, "findPublished") /\ calls[c].params.given
       /\ calls[c].params.perPage >= 1) =>
      LET res == calls[c].result.page
          full == PublishedList(c)
          perPage == calls[c].params.perPage
          n == res.totalPages.v
      IN /\ res.totalPages.kind = "int"
         /\ res.items = PageItems(full, calls[c].params.page, perPage)
         /\ PagesUpTo(full, n, perPage) = full
         /\ \A p, q \in 1..n :
              p # q => Range(PageItems(full, p, perPage))
                         \cap Range(PageItems(full, q, perPage)) = {}

\* A findPublished over three published posts, two to a page, returned the
\* partial last page.
C28_Witness ==
  \E c \in DOMAIN calls :
    /\ Done(c, "findPublished")
    /\ calls[c].params = Params(2, 2)
    /\ Len(PublishedList(c)) = 3
    /\ Len(calls[c].result.page.items) = 1

\* C29: for perPage >= 1 a paginated query returns items only when
\* 1 <= page <= totalPages; a page number of 0 or below yields no items.
C29_ItemsOnlyOnRealPages ==
  \A c \in DOMAIN calls :
    (Done(c, "findPublished") /\ calls[c].params.given
       /\ calls[c].params.perPage >= 1) =>
      LET res == calls[c].result.page
      IN /\ res.items # <<>> =>
              /\ res.totalPages.kind = "int"
              /\ 1 <= calls[c].params.page
              /\ calls[c].params.page <= res.totalPages.v
         /\ calls[c].params.page < 1 => res.items = <<>>

\* The document opens with "---" and a later "---" line closes a metadata
\* block that parses and passes the schema, whatever follows that line.
HasValidClosedBlock(content) ==
  /\ content # NoFile
  /\ Len(content) >= 3
  /\ content[1] = Delim
  /\ \E j \in 3..Len(content) :
       /\ content[j] = Delim
       /\ \A i \in 3..(j - 1) : content[i] # Delim
       /\ LET frontmatter == parseYaml(SubSeq(content, 2, j - 1))
          IN ~frontmatter.threw /\ SchemaIssues(frontmatter) = <<>>

\* C30: a document made of a valid metadata block closed by a "---" line
\* yields a post, whether or not a body or a newline follows that line.
C30_BlockAloneIsAccepted ==
  \A c \in DOMAIN calls :
    Done(c, "findAll") /\ Undisturbed(c) =>
      \A n \in Range(calls[c].listing) :
        HasValidClosedBlock(files[n]) =>
          /\ \A i \in 1..Len(calls[c].skipped) : calls[c].skipped[i].file # n
          /\ \E i \in 1..Len(calls[c].result.posts) :
               calls[c].result.posts[i].slug = n.stem

\* The lines with one more line put in after the first `at` of them.
InsertLine(lines, at, line) ==
  SubSeq(lines, 1, at) \o <<line>> \o SubSeq(lines, at + 1, Len(lines))

\* C26: a blank line or a line that is neither "key: value" nor a list item,
\* put in at any position of a metadata block (between two list items too),
\* leaves the parsed structure as it was.
C26_ExtraLinesIgnored ==
  output # <<>> =>
    \A at \in 0..Len(input[1]) : \A line \in {YBlank, YOther} :
      libParseYaml(InsertLine(input[1], at, line)) = output[1]

\* What the rules for scalars give for a trimmed value that is not empty.
ScalarOf(value) ==
  IF value = <<"true">> THEN Bool(TRUE)
  ELSE IF value = <<"false">> THEN Bool(FALSE)
  ELSE IF Len(value) >= 2 /\ value[1] \in Quotes /\ value[Len(value)] = value[1]
  THEN Str(SubSeq(value, 2, Len(value) - 1))
  ELSE Str(value)

\* C27: a "key: value" line gives true or false for the literals true and
\* false only, the inner text for a quoted value, and the trimmed text as
\* it is for any other value.
C27_ScalarValues ==
  output # <<>> =>
    \A i \in 1..Len(input[1]) :
      LET line == input[1][i]
          last == \A j \in (i + 1)..Len(input[1]) :
                    ~(input[1][j].kind = "key" /\ input[1][j].key = line.key)
      IN (line.kind = "key" /\ Trim(line.text) # <<>> /\ last) =>
           output[1][line.key] = ScalarOf(Trim(line.text))
====
